---- MODULE Spec2Model ----
(***************************************************************************)
(* PrepPal backend (src/preppal/backend/main.py): the in-memory document   *)
(* store, the chunker, the embedder with its random-vector fallback, the  *)
(* retriever, and the request handlers that read and mutate the store.    *)
(*                                                                         *)
(* Texts are TLA+ strings over the letter "w" and the blank.  A float is  *)
(* an integer, or NaN.  An embedding is a record [dim, v]: dim is the      *)
(* length of the vector and v its two leading coordinates (all the other  *)
(* coordinates are zero), so that norms and dot products are exact.       *)
(* A document id is the ordinal of the uuid4() call that produced it.     *)
(***************************************************************************)
EXTENDS Integers, Sequences, FiniteSets, TLC

\* ---------------------------------------------------------------- bounds
MaxUploads == 2      \* uploads that reach uuid4() in one run
MaxTopK == 2         \* largest top_k a caller of the retriever passes

\* ------------------------------------------------------ program constants
CHUNK_SIZE == 200    \* chunk_text's default chunk_size
EMBED_DIM == 768     \* width of the fallback vectors
DEFAULT_TOP_K == 5   \* retrieve_relevant_chunks' default top_k

None == "None"
Fail == "Fail"       \* an external call that raised
NaN == 1000000       \* the float nan

Min(a, b) == IF a < b THEN a ELSE b
Max(a, b) == IF a > b THEN a ELSE b

\* ------------------------------------------------------------ text helpers
CharAt(s, i) == SubSeq(s, i, i)
IsSpace(c) == c \in {" ", "\n", "\t"}

SetMin(S) == CHOOSE m \in S : \A n \in S : m <= n
SetMax(S) == CHOOSE m \in S : \A n \in S : m >= n

\* str.strip(): drop leading and trailing whitespace
Strip(s) ==
  LET solid == {i \in 1..Len(s) : ~IsSpace(CharAt(s, i))} IN
  IF solid = {} THEN "" ELSE SubSeq(s, SetMin(solid), SetMax(solid))

\* str.split(): the maximal runs of non-whitespace characters, in order
WordStarts(s) ==
  {i \in 1..Len(s) : ~IsSpace(CharAt(s, i)) /\ (i = 1 \/ IsSpace(CharAt(s, i - 1)))}

WordEnd(s, i) ==
  CHOOSE j \in i..Len(s) :
    /\ j = Len(s) \/ IsSpace(CharAt(s, j + 1))
    /\ \A m \in i..j : ~IsSpace(CharAt(s, m))

Split(s) ==
  LET starts == WordStarts(s)
      rank == [i \in starts |-> Cardinality({j \in starts : j <= i})]
  IN [k \in 1..Cardinality(starts) |->
        LET i == CHOOSE j \in starts : rank[j] = k IN SubSeq(s, i, WordEnd(s, i))]

\* ' '.join(words)
RECURSIVE Join(_)
Join(words) ==
  IF words = <<>> THEN ""
  ELSE IF Len(words) = 1 THEN words[1]
  ELSE LET h == Len(words) \div 2 IN
       Join(SubSeq(words, 1, h)) \o " " \o Join(SubSeq(words, h + 1, Len(words)))

\* range(0, n, step) has this many elements (n >= 0; a step of 0 raises)
RangeLen(n, step) == IF step > 0 THEN (n + step - 1) \div step ELSE 0

\* a chunker without the "if not words" exit
chunk_text_no_exit(text, chunk_size) ==
  LET words == Split(text) IN
  [k \in 1..RangeLen(Len(words), chunk_size) |->
     Join(SubSeq(words, (k - 1) * chunk_size + 1, Min(k * chunk_size, Len(words))))]

chunk_text(text, chunk_size) ==
  LET words == Split(text) IN
  IF words = <<>> THEN <<"">>
  ELSE [k \in 1..RangeLen(Len(words), chunk_size) |->
          Join(SubSeq(words, (k - 1) * chunk_size + 1,
                      Min(k * chunk_size, Len(words))))]

\* ------------------------------------------------------------------ floats
IsNaN(a) == a = NaN
FAdd(a, b) == IF IsNaN(a) \/ IsNaN(b) THEN NaN ELSE a + b
FMul(a, b) == IF IsNaN(a) \/ IsNaN(b) THEN NaN ELSE a * b
\* a / n for the vectors used here: exact, and 0 / 0 is nan (numpy warns, no raise)
FDiv(a, n) == IF IsNaN(a) \/ IsNaN(n) \/ n = 0 THEN NaN ELSE a \div n

ISqrt(n) == CHOOSE r \in 0..n : r * r = n

\* np.linalg.norm of a vector whose leading coordinates are v
Norm(v) == ISqrt(v[1] * v[1] + v[2] * v[2])

\* arr / norm
Scale(v, n) == <<FDiv(v[1], n), FDiv(v[2], n)>>

\* np.dot of two vectors
Dot(a, b) == FAdd(FMul(a[1], b[1]), FMul(a[2], b[2]))

\* ------------------------------------------------------- external provider
\* genai.embed_content: it raises, or it returns {'embedding': [...]}
EmbedFailed == [ok |-> FALSE]
EmbedOk(v) == [ok |-> TRUE, embedding |-> [dim |-> EMBED_DIM, v |-> v]]

DocVectors == {<<2, 0>>, <<0, 3>>}       \* raw vectors returned for chunks
QueryVectors == {<<2, 0>>, <<0, 0>>}     \* raw vectors returned for queries
RandnRows == {<<-3, 0>>}                 \* rows np.random.randn draws

DocEmbedOutcomes == {EmbedFailed} \cup {EmbedOk(v) : v \in DocVectors}
QueryEmbedOutcomes == {EmbedFailed} \cup {EmbedOk(v) : v \in QueryVectors}

\* the provider calls create_embeddings makes: one per text, up to and
\* including the first that raises
CallsMade(calls) ==
  LET bad == {i \in 1..Len(calls) : ~calls[i].ok} IN
  IF bad = {} THEN calls ELSE SubSeq(calls, 1, SetMin(bad))

\* ---------------------------------------------------------------- embedder
\* lines 164-170: normalise one provider vector, zero vectors left as they are
NormalizeDoc(emb) ==
  LET norm == Norm(emb.v) IN
  IF norm > 0 THEN [dim |-> emb.dim, v |-> Scale(emb.v, norm)] ELSE emb

\* a fallback row of another width, left unnormalised
FallbackRow_narrow(row) == [dim |-> 512, v |-> row]

\* lines 175-177: a row of randn(len(texts), 768), divided by its norm
FallbackRow(row) == [dim |-> EMBED_DIM, v |-> Scale(row, Norm(row))]

\* a create_embeddings that keeps the vectors obtained before the failing call
\* and stops there
create_embeddings_truncating(texts, calls, rnd) ==
  LET made == CallsMade(calls) IN
  [i \in 1..Cardinality({j \in 1..Len(made) : made[j].ok}) |->
     NormalizeDoc(calls[i].embedding)]

\* calls[i] is what the provider does for texts[i]; rnd[i] is the i-th randn row
create_embeddings(texts, calls, rnd) ==
  IF \A i \in 1..Len(texts) : i <= Len(calls) /\ calls[i].ok
  THEN [i \in 1..Len(texts) |-> NormalizeDoc(calls[i].embedding)]
  ELSE [i \in 1..Len(texts) |-> FallbackRow(rnd[i])]

\* ------------------------------------------------------------------- state
VARIABLES
  documents_store,   \* doc_id -> document, the module-level dict
  store_entries,     \* ids in the order the dict received them (its entry table)
  uuid_issued,       \* number of uuid4() calls made by uploads so far
  argsort_kind,      \* how this numpy build orders equal keys in np.argsort
  response,          \* the response of the handler that just ran, until delivered
  upload_task,       \* the /upload coroutine on the event loop
  chat_task,         \* a threadpool worker serving /chat
  list_task,         \* a threadpool worker serving GET /documents
  delete_task,       \* threadpool workers serving DELETE /documents/{doc_id}
  st                 \* one browser session of the web client: st.session_state, and
                     \* the message its last run displayed

storeState == <<documents_store, store_entries, uuid_issued>>
taskState == <<upload_task, chat_task, list_task, delete_task>>

ArgsortKinds == {"ties_ascending", "ties_descending"}

\* ------------------------------------------------------------ dict helpers
\* list(documents_store.keys()): live ids in insertion order
Keys(store, entries) ==
  LET live(id) == id \in DOMAIN store IN SelectSeq(entries, live)

\* documents_store[doc_id] = doc
DictSet(store, id, doc) ==
  [k \in DOMAIN store \cup {id} |-> IF k = id THEN doc ELSE store[k]]

\* a del that leaves the dict as it was
DictDel_keeps(store, id) == store

\* del documents_store[doc_id]
DictDel(store, id) == [k \in DOMAIN store \ {id} |-> store[k]]

\* --------------------------------------------------------------- retriever
NoDocIds == [given |-> FALSE, ids |-> <<>>]       \* doc_ids = None
DocIds(ids) == [given |-> TRUE, ids |-> ids]

\* a target_docs that falls back to all keys when no id of doc_ids is stored
TargetDocs_known(doc_ids, store, entries) ==
  IF doc_ids.given /\ \E k \in 1..Len(doc_ids.ids) : doc_ids.ids[k] \in DOMAIN store
  THEN doc_ids.ids ELSE Keys(store, entries)

\* "doc_ids if doc_ids else list(documents_store.keys())"
TargetDocs(doc_ids, store, entries) ==
  IF doc_ids.given /\ doc_ids.ids # <<>> THEN doc_ids.ids ELSE Keys(store, entries)

\* lines 210-217: the candidates one document contributes
DocCandidates(doc) ==
  [i \in 1..Len(doc.chunks) |->
     [text |-> doc.chunks[i],
      embedding |-> doc.embeddings[i],
      source |-> [doc_id |-> doc.doc_id, filename |-> doc.filename,
                  chunk_index |-> i - 1]]]

\* a loop that stops after the first id of target_docs
Gather_first(target_docs, store) ==
  IF target_docs # <<>> /\ Head(target_docs) \in DOMAIN store
  THEN DocCandidates(store[Head(target_docs)]) ELSE <<>>

\* lines 207-217
RECURSIVE Gather(_, _)
Gather(target_docs, store) ==
  IF target_docs = <<>> THEN <<>>
  ELSE (IF Head(target_docs) \in DOMAIN store
        THEN DocCandidates(store[Head(target_docs)]) ELSE <<>>)
       \o Gather(Tail(target_docs), store)

\* lines 195-196: the query vector divided by its norm, with no zero check
NormalizeQuery(emb) == [dim |-> emb.dim, v |-> Scale(emb.v, Norm(emb.v))]

cosine_similarity(query_embedding, doc_embeddings) ==
  [i \in 1..Len(doc_embeddings) |-> Dot(doc_embeddings[i].v, query_embedding.v)]

\* the order np.argsort sorts by: ascending, nan last
FLess(a, b) == IF IsNaN(a) THEN FALSE ELSE (IsNaN(b) \/ a < b)

\* np.argsort(a) with the default kind, which is not a stable sort: equal
\* keys come out in the order this build gives them
argsort(a, kind) ==
  LET n == Len(a)
      before(i, j) ==
        \/ FLess(a[i], a[j])
        \/ /\ ~FLess(a[j], a[i])
           /\ IF kind = "ties_ascending" THEN i < j ELSE i > j
  IN [k \in 1..n |-> CHOOSE i \in 1..n : Cardinality({j \in 1..n : before(j, i)}) = k - 1]

\* seq[:k], the other end of the sorted indices
PyLast_first(seq, k) == SubSeq(seq, 1, Min(Len(seq), Max(k, 0)))

\* seq[-k:]
PyLast(seq, k) ==
  IF k = 0 THEN seq
  ELSE IF k > 0 THEN SubSeq(seq, Max(1, Len(seq) - k + 1), Len(seq))
  ELSE SubSeq(seq, Min(Len(seq), 0 - k) + 1, Len(seq))

\* seq[::-1]
Reverse(seq) == [i \in 1..Len(seq) |-> seq[Len(seq) + 1 - i]]

\* a ranking without the "if not all_embeddings" exit: it always answers with
\* top_k entries, blank ones when there is nothing to rank
RankCandidates_padded(query_embedding, candidates, top_k, kind) ==
  [r \in 1..top_k |->
     IF r <= Len(candidates)
     THEN [text |-> candidates[r].text, score |-> 0, source |-> candidates[r].source]
     ELSE [text |-> "", score |-> 0,
           source |-> [doc_id |-> 0, filename |-> "", chunk_index |-> 0]]]

\* lines 219-235: rank the gathered candidates
RankCandidates(query_embedding, candidates, top_k, kind) ==
  IF candidates = <<>> THEN <<>>
  ELSE LET similarities ==
             cosine_similarity(query_embedding,
                               [i \in 1..Len(candidates) |-> candidates[i].embedding])
           top_indices == Reverse(PyLast(argsort(similarities, kind), top_k))
       IN [r \in 1..Len(top_indices) |->
             [text |-> candidates[top_indices[r]].text,
              score |-> similarities[top_indices[r]],
              source |-> candidates[top_indices[r]].source]]

\* a retriever that falls back to a random query vector, as the embedder does
retrieve_relevant_chunks_random_query(q, doc_ids, top_k, store, entries, kind) ==
  RankCandidates(IF q.ok THEN NormalizeQuery(q.embedding)
                 ELSE FallbackRow(CHOOSE row \in RandnRows : TRUE),
                 Gather(TargetDocs(doc_ids, store, entries), store),
                 top_k, kind)

\* q is what the provider does for the query
retrieve_relevant_chunks(q, doc_ids, top_k, store, entries, kind) ==
  IF ~q.ok THEN <<>>
  ELSE RankCandidates(NormalizeQuery(q.embedding),
                      Gather(TargetDocs(doc_ids, store, entries), store),
                      top_k, kind)

\* ---------------------------------------------------------- upload inputs
EndsWith(s, suffix) ==
  Len(s) >= Len(suffix) /\ SubSeq(s, Len(s) - Len(suffix) + 1, Len(s)) = suffix

\* a PDF: fitz opens it or raises; pages is the text its pages hold
Pdf(openable, pages) == [openable |-> openable, pages |-> pages]

ShortPages == " w w "
LongPages == "w w w w w w w w w w w w w w w w w w w w w w w w w w w w w w w w w w w w w w w w w w w w w w w w w w w w w w w w w w w w w w w w w w w w w w w w w w w w w w w w w w w w w w w w w w w w w w w w w w w w w w w w w w w w w w w w w w w w w w w w w w w w w w w w w w w w w w w w w w w w w w w w w w w w w w w w w w w w w w w w w w w w w w w w w w w w w w w w w w w w w w w w w w w w w w w w w w w w w w w w w\n"

UploadRequests ==
  { [filename |-> "notes.pdf",  subject |-> None,   readable |-> TRUE,  pdf |-> Pdf(TRUE, ShortPages)],
    [filename |-> "slides.pdf", subject |-> "Math", readable |-> TRUE,  pdf |-> Pdf(TRUE, LongPages)],
    [filename |-> "notes.txt",  subject |-> None,   readable |-> TRUE,  pdf |-> Pdf(TRUE, ShortPages)],
    [filename |-> "blank.pdf",  subject |-> None,   readable |-> TRUE,  pdf |-> Pdf(TRUE, "  ")],
    [filename |-> "broken.pdf", subject |-> None,   readable |-> TRUE,  pdf |-> Pdf(FALSE, "")],
    [filename |-> "gone.pdf",   subject |-> None,   readable |-> FALSE, pdf |-> Pdf(TRUE, ShortPages)] }

\* an extraction that returns the pages' text as it is, without strip()
extract_text_from_pdf_raw(content) ==
  IF content.openable THEN content.pages ELSE ""

\* lines 364-375: the pages' text stripped, "" when the file cannot be opened
extract_text_from_pdf(content) ==
  IF content.openable THEN Strip(content.pages) ELSE ""

\* extract_text_from_pdf(content) and chunk_text(text) for the requests'
\* files, computed once
TextTable == [r \in UploadRequests |-> extract_text_from_pdf(r.pdf)]
ChunkTable == [r \in UploadRequests |-> chunk_text(TextTable[r], CHUNK_SIZE)]

\* subject or "General"
SubjectOrGeneral(subject) == IF subject = None \/ subject = "" THEN "General" ELSE subject

\* a document stored with its chunks before its embeddings are there
NewDocument_chunks_first(doc_id, req, chunks, embeddings, now) ==
  [doc_id |-> doc_id,
   filename |-> req.filename,
   subject |-> SubjectOrGeneral(req.subject),
   chunks |-> chunks,
   embeddings |-> <<>>,
   upload_date |-> now,
   num_chunks |-> Len(chunks)]

\* lines 555-563: the dict stored under doc_id
NewDocument(doc_id, req, chunks, embeddings, now) ==
  [doc_id |-> doc_id,
   filename |-> req.filename,
   subject |-> SubjectOrGeneral(req.subject),
   chunks |-> chunks,
   embeddings |-> embeddings,
   upload_date |-> now,
   num_chunks |-> Len(chunks)]

\* lines 564-570; req and calls are history, not part of the body: the
\* request, and the provider calls create_embeddings made while serving it
UploadOk(doc_id, req, chunks, calls) ==
  [op |-> "upload", status |-> 200, doc_id |-> doc_id, filename |-> req.filename,
   num_chunks |-> Len(chunks), subject |-> SubjectOrGeneral(req.subject),
   message |-> "Document uploaded and processed successfully",
   req |-> req, calls |-> CallsMade(calls)]


\* an upload_document without the "if not text" exit
UploadRejection_name_only(req) ==
  IF ~EndsWith(req.filename, ".pdf") THEN "Only PDF files are supported"
  ELSE IF ~req.readable THEN "Upload failed"
  ELSE ""

\* which early exit of upload_document a request takes, "" when it takes none
UploadRejection(req) ==
  IF ~EndsWith(req.filename, ".pdf") THEN "Only PDF files are supported"
  ELSE IF ~req.readable THEN "Upload failed"
  ELSE IF TextTable[req] = "" THEN "Could not extract text from PDF"
  ELSE ""

UploadRejectionStatus(req) == IF UploadRejection(req) = "Upload failed" THEN 500 ELSE 400

\* an upload's error response; req is history: the request it answers
UploadError(req) ==
  [op |-> "upload", status |-> UploadRejectionStatus(req), detail |-> UploadRejection(req),
   req |-> req, calls |-> <<>>]

NoResponse == [op |-> "none", status |-> 0]

\* an id generator that hands out the same id again
uuid4_recycled(issued) == 1

\* line 552: str(uuid.uuid4()), a value no earlier call returned; it is
\* modelled by the ordinal of the call
uuid4(issued) == issued + 1

\* ------------------------------------------------- handlers, run to the end
\* POST /upload; datetime.now() is read once per stored document and is
\* modelled by the ordinal of that reading
upload_document(req, calls, rnd) ==
  /\ response = NoResponse
  /\ IF UploadRejection(req) # ""
     THEN /\ response' = UploadError(req)
          /\ UNCHANGED <<documents_store, store_entries, uuid_issued, argsort_kind, st, taskState>>
     ELSE /\ uuid_issued < MaxUploads
          /\ LET doc_id == uuid4(uuid_issued)
                 chunks == ChunkTable[req]
                 embeddings == create_embeddings(chunks, calls, rnd)
             IN /\ uuid_issued' = uuid_issued + 1
                /\ documents_store' =
                     DictSet(documents_store, doc_id,
                             NewDocument(doc_id, req, chunks, embeddings, doc_id))
                /\ store_entries' = Append(store_entries, doc_id)
                /\ response' = UploadOk(doc_id, req, chunks, calls)
          /\ UNCHANGED <<argsort_kind, st, taskState>>

\* a delete that answers 200 whether or not the id is a key
delete_document_lenient(doc_id) ==
  /\ response = NoResponse
  /\ documents_store' = DictDel(documents_store, doc_id)
  /\ response' = [op |-> "delete", status |-> 200, doc_id |-> doc_id, filename |-> ""]
  /\ UNCHANGED <<store_entries, uuid_issued, argsort_kind, st, taskState>>

\* DELETE /documents/{doc_id}
delete_document(doc_id) ==
  /\ response = NoResponse
  /\ IF doc_id \in DOMAIN documents_store
     THEN /\ documents_store' = DictDel(documents_store, doc_id)
          /\ response' = [op |-> "delete", status |-> 200, doc_id |-> doc_id,
                          filename |-> documents_store[doc_id].filename]
     ELSE /\ response' = [op |-> "delete", status |-> 404, doc_id |-> doc_id,
                          detail |-> "Document not found"]
          /\ UNCHANGED documents_store
  /\ UNCHANGED <<store_entries, uuid_issued, argsort_kind, st, taskState>>

\* a listing entry that is the stored dict itself
Metadata_whole(doc) == doc

\* lines 653-659
Metadata(doc) ==
  [doc_id |-> doc.doc_id, filename |-> doc.filename, subject |-> doc.subject,
   num_chunks |-> doc.num_chunks, upload_date |-> doc.upload_date]

\* GET /documents
list_documents ==
  /\ response = NoResponse
  /\ response' =
       [op |-> "list", status |-> 200,
        documents |-> LET keys == Keys(documents_store, store_entries)
                      IN [k \in 1..Len(keys) |-> Metadata(documents_store[keys[k]])]]
  /\ UNCHANGED <<documents_store, store_entries, uuid_issued, argsort_kind, st, taskState>>

\* a call of retrieve_relevant_chunks(query, doc_ids, top_k)
Retrieve(q, doc_ids, top_k) ==
  /\ response = NoResponse
  /\ response' =
       [op |-> "retrieve", status |-> 200, q |-> q, doc_ids |-> doc_ids, top_k |-> top_k,
        results |-> retrieve_relevant_chunks(q, doc_ids, top_k, documents_store,
                                             store_entries, argsort_kind)]
  /\ UNCHANGED <<documents_store, store_entries, uuid_issued, argsort_kind, st, taskState>>

\* the response leaves the server; the next request can be served
Deliver ==
  /\ response # NoResponse
  /\ response' = NoResponse
  /\ UNCHANGED <<documents_store, store_entries, uuid_issued, argsort_kind, st, taskState>>

\* ------------------------------------------------------------ input sets
KnownIds == 1..MaxUploads
UnknownId == MaxUploads + 1          \* an id no uuid4() call of a run returns
ScopeIds == KnownIds \cup {UnknownId}
TopKs == 0..MaxTopK

\* doc_ids lists: empty, one id, two ids (also the same id twice)
ScopeLists == {<<>>} \cup {<<a>> : a \in ScopeIds} \cup {<<a, b>> : a, b \in ScopeIds}
Scopes == {NoDocIds} \cup {DocIds(ids) : ids \in ScopeLists}

\* ------------------------------------------- handlers, step by step
\* FastAPI runs "async def upload_document" on the event loop and the "def"
\* handlers on threadpool workers.  A worker can be preempted between any two
\* bytecodes, so every access to documents_store is a step of its own; the
\* code takes no lock.  The coroutine yields only at "await file.read()".
MaxInFlight == 2     \* requests being served at the same time

\* two threadpool workers serving DELETE /documents/{doc_id}
DeleteWorkers == {1, 2}

ConcUploadRequests == {r \in UploadRequests : r.filename \in {"notes.pdf", "slides.pdf", "notes.txt"}}
ConcDocOutcomes == {EmbedFailed, EmbedOk(<<2, 0>>)}
ConcQueryOutcomes == {EmbedFailed, EmbedOk(<<2, 0>>)}
ConcScopes == {NoDocIds, DocIds(<<1>>)}
GenerationOutcomes == {"text", Fail}

NoRequest == [filename |-> "", subject |-> None, readable |-> TRUE, pdf |-> Pdf(FALSE, "")]

IdleUpload ==
  [pc |-> "idle", req |-> NoRequest, doc_id |-> 0, calls |-> <<>>, embeddings |-> <<>>,
   result |-> NoResponse]

\* seen, after and mutations are history: the store when the request began,
\* the store after the last insert or delete made while it ran, and the number
\* of those (counted up to 2)
IdleChat ==
  [pc |-> "idle", doc_ids |-> NoDocIds, q |-> EmbedFailed, target_docs |-> <<>>, i |-> 0,
   candidates |-> <<>>, result |-> NoResponse, seen |-> <<>>, after |-> <<>>, mutations |-> 0]

IdleList ==
  [pc |-> "idle", pos |-> 0, used |-> 0, out |-> <<>>, result |-> NoResponse,
   seen |-> <<>>, after |-> <<>>, mutations |-> 0]

\* found is history: the membership test of line 668 succeeded
IdleDelete == [pc |-> "idle", doc_id |-> 0, filename |-> "", found |-> FALSE, result |-> NoResponse]

InFlight ==
  Cardinality({t \in {"upload", "chat", "list"} :
                 CASE t = "upload" -> upload_task.pc # "idle"
                   [] t = "chat" -> chat_task.pc # "idle"
                   [] t = "list" -> list_task.pc # "idle"})
  + Cardinality({w \in DeleteWorkers : delete_task[w].pc # "idle"})

\* history: a reader in flight sees one more mutation of the store
NoteMutation(t, store) ==
  IF t.pc \in {"idle", "done"} THEN t
  ELSE [t EXCEPT !.mutations = Min(2, @ + 1), !.after = store]

\* ---- POST /upload
\* lines 546-548: the filename test, then the coroutine awaits the body
UploadBegin(req) ==
  /\ upload_task.pc = "idle"
  /\ InFlight < MaxInFlight
  /\ UploadRejection(req) = "" => uuid_issued < MaxUploads
  /\ upload_task' =
       IF ~EndsWith(req.filename, ".pdf")
       THEN [IdleUpload EXCEPT !.pc = "done", !.req = req, !.result = UploadError(req)]
       ELSE [IdleUpload EXCEPT !.pc = "read", !.req = req]
  /\ UNCHANGED <<storeState, argsort_kind, st, response, chat_task, list_task, delete_task>>

\* lines 548-553: the body arrives; text extraction, uuid4() and chunk_text
UploadRead ==
  /\ upload_task.pc = "read"
  /\ IF UploadRejection(upload_task.req) # ""
     THEN /\ upload_task' = [upload_task EXCEPT !.pc = "done",
                                                !.result = UploadError(upload_task.req)]
          /\ UNCHANGED uuid_issued
     ELSE /\ uuid_issued' = uuid_issued + 1
          /\ upload_task' = [upload_task EXCEPT !.pc = "embed", !.doc_id = uuid4(uuid_issued)]
  /\ UNCHANGED <<documents_store, store_entries, argsort_kind, st, response,
                 chat_task, list_task, delete_task>>

\* lines 158-177: one genai.embed_content call; the call that fails, or the
\* last one, ends create_embeddings
UploadEmbedCall(outcome) ==
  /\ upload_task.pc = "embed"
  /\ LET chunks == ChunkTable[upload_task.req]
         calls == Append(upload_task.calls, outcome)
     IN IF outcome.ok /\ Len(calls) < Len(chunks)
        THEN upload_task' = [upload_task EXCEPT !.calls = calls]
        ELSE \E rnd \in [1..Len(chunks) -> RandnRows] :
               upload_task' = [upload_task EXCEPT !.calls = calls, !.pc = "publish",
                                 !.embeddings = create_embeddings(chunks, calls, rnd)]
  /\ UNCHANGED <<storeState, argsort_kind, st, response, chat_task, list_task, delete_task>>

\* lines 555-570: the one statement that makes the document visible
UploadPublish ==
  /\ upload_task.pc = "publish"
  /\ LET req == upload_task.req
         doc_id == upload_task.doc_id
         chunks == ChunkTable[req]
     IN /\ documents_store' =
             DictSet(documents_store, doc_id,
                     NewDocument(doc_id, req, chunks, upload_task.embeddings, doc_id))
        /\ store_entries' = Append(store_entries, doc_id)
        /\ upload_task' = [upload_task EXCEPT !.pc = "done",
                             !.result = UploadOk(doc_id, req, chunks, upload_task.calls)]
  /\ chat_task' = NoteMutation(chat_task, documents_store')
  /\ list_task' = NoteMutation(list_task, documents_store')
  /\ UNCHANGED <<uuid_issued, argsort_kind, st, response, delete_task>>

UploadReturn ==
  /\ upload_task.pc = "done"
  /\ upload_task' = IdleUpload
  /\ UNCHANGED <<storeState, argsort_kind, st, response, chat_task, list_task, delete_task>>

\* ---- POST /chat
NO_MATERIALS == "I don't have any study materials to reference yet. Please upload some documents first!"
GENERATION_ERROR == "I encountered an error while generating the answer. Please try again."

\* a generate_answer_with_llm without the "if not context_chunks" exit
generate_answer_with_llm_always_calls(context_chunks, gen) ==
  [text |-> IF gen = Fail THEN GENERATION_ERROR ELSE gen, calls |-> 1]

\* lines 238-257; gen is what model.generate_content does if it is called, and
\* calls is history: the number of times it was called
generate_answer_with_llm(context_chunks, gen) ==
  IF context_chunks = <<>> THEN [text |-> NO_MATERIALS, calls |-> 0]
  ELSE IF gen = Fail THEN [text |-> GENERATION_ERROR, calls |-> 1]
  ELSE [text |-> gen, calls |-> 1]

\* a chat that answers 500 when a provider call failed
ChatResponse_strict(relevant_chunks, gen) ==
  IF relevant_chunks = <<>> \/ gen = Fail
  THEN [op |-> "chat", status |-> 500, detail |-> "Chat failed: provider"]
  ELSE [op |-> "chat", status |-> 200, answer |-> gen, sources |-> <<>>,
        results |-> relevant_chunks]

\* lines 582-602: the answer and the response built from the retrieved chunks
ChatResponse(relevant_chunks, gen) ==
  [op |-> "chat", status |-> 200,
   answer |-> generate_answer_with_llm(relevant_chunks, gen).text,
   sources |-> [k \in 1..Len(relevant_chunks) |->
                  [filename |-> relevant_chunks[k].source.filename,
                   chunk_index |-> relevant_chunks[k].source.chunk_index,
                   relevance_score |-> relevant_chunks[k].score]],
   results |-> relevant_chunks]

\* line 604: any exception inside chat becomes a 500
ChatFailed(exc) == [op |-> "chat", status |-> 500, detail |-> "Chat failed: " \o exc]

\* lines 219-235 and 582-602, once the loop over target_docs has ended
ChatFinish(task, candidates, gen) ==
  [task EXCEPT !.pc = "done", !.candidates = candidates,
               !.result = ChatResponse(RankCandidates(NormalizeQuery(task.q.embedding),
                                                      candidates, DEFAULT_TOP_K, argsort_kind),
                                       gen)]

ChatBegin(doc_ids) ==
  /\ chat_task.pc = "idle"
  /\ InFlight < MaxInFlight
  /\ chat_task' = [IdleChat EXCEPT !.pc = "embed_query", !.doc_ids = doc_ids,
                                   !.seen = documents_store, !.after = documents_store]
  /\ UNCHANGED <<storeState, argsort_kind, st, response, upload_task, list_task, delete_task>>

\* lines 188-199: the query embedding call
ChatEmbedQuery(q) ==
  /\ chat_task.pc = "embed_query"
  /\ chat_task' =
       IF q.ok THEN [chat_task EXCEPT !.pc = "targets", !.q = q]
       ELSE [chat_task EXCEPT !.pc = "done", !.q = q, !.result = ChatResponse(<<>>, Fail)]
  /\ UNCHANGED <<storeState, argsort_kind, st, response, upload_task, list_task, delete_task>>

\* line 205: target_docs is the caller's list or a copy of the keys
ChatTargets(gen) ==
  /\ chat_task.pc = "targets"
  /\ LET target_docs == TargetDocs(chat_task.doc_ids, documents_store, store_entries)
     IN chat_task' =
          IF target_docs = <<>> THEN ChatFinish(chat_task, <<>>, gen)
          ELSE [chat_task EXCEPT !.pc = "check", !.target_docs = target_docs, !.i = 1]
  /\ UNCHANGED <<storeState, argsort_kind, st, response, upload_task, list_task, delete_task>>

\* line 208: "if doc_id in documents_store"
ChatCheck(gen) ==
  /\ chat_task.pc = "check"
  /\ chat_task' =
       IF chat_task.target_docs[chat_task.i] \in DOMAIN documents_store
       THEN [chat_task EXCEPT !.pc = "fetch"]
       ELSE IF chat_task.i < Len(chat_task.target_docs)
       THEN [chat_task EXCEPT !.i = @ + 1]
       ELSE ChatFinish(chat_task, chat_task.candidates, gen)
  /\ UNCHANGED <<storeState, argsort_kind, st, response, upload_task, list_task, delete_task>>

\* lines 209-217: "doc = documents_store[doc_id]" raises KeyError when the id
\* has gone since the test; the document itself is never changed once stored
ChatFetch(gen) ==
  /\ chat_task.pc = "fetch"
  /\ LET doc_id == chat_task.target_docs[chat_task.i] IN
     chat_task' =
       IF doc_id \notin DOMAIN documents_store
       THEN [chat_task EXCEPT !.pc = "done", !.result = ChatFailed("KeyError")]
       ELSE LET candidates == chat_task.candidates \o DocCandidates(documents_store[doc_id])
            IN IF chat_task.i < Len(chat_task.target_docs)
               THEN [chat_task EXCEPT !.pc = "check", !.i = @ + 1, !.candidates = candidates]
               ELSE ChatFinish(chat_task, candidates, gen)
  /\ UNCHANGED <<storeState, argsort_kind, st, response, upload_task, list_task, delete_task>>

ChatReturn ==
  /\ chat_task.pc = "done"
  /\ chat_task' = IdleChat
  /\ UNCHANGED <<storeState, argsort_kind, st, response, upload_task, list_task, delete_task>>

\* ---- GET /documents
\* line 660: documents_store.values() and its iterator, which remembers the
\* size of the dict
ListBegin ==
  /\ list_task.pc = "idle"
  /\ InFlight < MaxInFlight
  /\ list_task' = [IdleList EXCEPT !.pc = "iter", !.used = Cardinality(DOMAIN documents_store),
                                   !.seen = documents_store, !.after = documents_store]
  /\ UNCHANGED <<storeState, argsort_kind, st, response, upload_task, chat_task, delete_task>>

\* the next live entry of the dict's entry table after position pos, 0 if none
NextEntry(pos) ==
  LET live == {k \in (pos + 1)..Len(store_entries) : store_entries[k] \in DOMAIN documents_store}
  IN IF live = {} THEN 0 ELSE SetMin(live)

\* lines 652-661: one turn of the comprehension.  The iterator raises
\* RuntimeError when the dict's size is not the one it remembers; nothing in
\* list_documents catches it
ListNext ==
  /\ list_task.pc = "iter"
  /\ list_task' =
       IF Cardinality(DOMAIN documents_store) # list_task.used
       THEN [list_task EXCEPT !.pc = "done",
               !.result = [op |-> "list", status |-> 500, detail |-> "RuntimeError"]]
       ELSE IF NextEntry(list_task.pos) = 0
       THEN [list_task EXCEPT !.pc = "done",
               !.result = [op |-> "list", status |-> 200, documents |-> list_task.out]]
       ELSE [list_task EXCEPT !.pos = NextEntry(list_task.pos),
               !.out = Append(@, Metadata(documents_store[store_entries[NextEntry(list_task.pos)]]))]
  /\ UNCHANGED <<storeState, argsort_kind, st, response, upload_task, chat_task, delete_task>>

ListReturn ==
  /\ list_task.pc = "done"
  /\ list_task' = IdleList
  /\ UNCHANGED <<storeState, argsort_kind, st, response, upload_task, chat_task, delete_task>>

\* ---- DELETE /documents/{doc_id}
\* line 668: the membership test; line 673 when it fails
DeleteBegin(w, doc_id) ==
  /\ delete_task[w].pc = "idle"
  /\ InFlight < MaxInFlight
  /\ delete_task' =
       [delete_task EXCEPT ![w] =
          IF doc_id \in DOMAIN documents_store
          THEN [IdleDelete EXCEPT !.pc = "fetch", !.doc_id = doc_id, !.found = TRUE]
          ELSE [IdleDelete EXCEPT !.pc = "done", !.doc_id = doc_id,
                  !.result = [op |-> "delete", status |-> 404, detail |-> "Document not found"]]]
  /\ UNCHANGED <<storeState, argsort_kind, st, response, upload_task, chat_task, list_task>>

DeleteKeyError == [op |-> "delete", status |-> 500, detail |-> "KeyError"]

\* line 669: "filename = documents_store[doc_id]['filename']"
DeleteFetch(w) ==
  /\ delete_task[w].pc = "fetch"
  /\ delete_task' =
       [delete_task EXCEPT ![w] =
          IF delete_task[w].doc_id \in DOMAIN documents_store
          THEN [@ EXCEPT !.pc = "del", !.filename = documents_store[delete_task[w].doc_id].filename]
          ELSE [@ EXCEPT !.pc = "done", !.result = DeleteKeyError]]
  /\ UNCHANGED <<storeState, argsort_kind, st, response, upload_task, chat_task, list_task>>

\* lines 670-671: "del documents_store[doc_id]"
DeleteDel(w) ==
  /\ delete_task[w].pc = "del"
  /\ IF delete_task[w].doc_id \in DOMAIN documents_store
     THEN /\ documents_store' = DictDel(documents_store, delete_task[w].doc_id)
          /\ delete_task' =
               [delete_task EXCEPT ![w] =
                  [@ EXCEPT !.pc = "done",
                     !.result = [op |-> "delete", status |-> 200,
                                 filename |-> delete_task[w].filename]]]
          /\ chat_task' = NoteMutation(chat_task, documents_store')
          /\ list_task' = NoteMutation(list_task, documents_store')
     ELSE /\ delete_task' =
               [delete_task EXCEPT ![w] = [@ EXCEPT !.pc = "done", !.result = DeleteKeyError]]
          /\ UNCHANGED <<documents_store, chat_task, list_task>>
  /\ UNCHANGED <<store_entries, uuid_issued, argsort_kind, st, response, upload_task>>

DeleteReturn(w) ==
  /\ delete_task[w].pc = "done"
  /\ delete_task' = [delete_task EXCEPT ![w] = IdleDelete]
  /\ UNCHANGED <<storeState, argsort_kind, st, response, upload_task, chat_task, list_task>>

\* ---- POST /chat, run to the end (lines 577-604).  q, doc_ids and gen are
\* history: what the embedding call did, the request's doc_ids, and what
\* model.generate_content does if it is called.  chat_history is appended to
\* and never read; it is left out.
chat(q, doc_ids, gen) ==
  /\ response = NoResponse
  /\ response' =
       ChatResponse(retrieve_relevant_chunks(q, doc_ids, DEFAULT_TOP_K, documents_store,
                                             store_entries, argsort_kind), gen)
       @@ [q |-> q, doc_ids |-> doc_ids, gen |-> gen]
  /\ UNCHANGED <<documents_store, store_entries, uuid_issued, argsort_kind, st, taskState>>

\* ---- POST /quiz
MaxQuestions == 6    \* largest num_questions of a request

FALLBACK_QUESTION == "What is a key concept in your study materials?"

\* what model.generate_content and json.loads give: ok is FALSE when the call
\* raised or the text did not parse to a list of question dicts
QuizGenerations ==
  {[ok |-> FALSE, questions |-> <<>>],
   [ok |-> TRUE, questions |-> <<"q1">>],
   [ok |-> TRUE, questions |-> <<"q1", "q2">>]}

\* lines 618-622: the chunks one document adds to context_chunks
QuizChunks(doc) ==
  [i \in 1..Min(Len(doc.chunks), 5) |->
     [text |-> doc.chunks[i],
      source |-> [filename |-> doc.filename, chunk_index |-> i - 1]]]

\* lines 614-622; "if request.doc_ids" skips the loop for None and for []
RECURSIVE QuizContext(_, _)
QuizContext(ids, store) ==
  IF ids = <<>> THEN <<>>
  ELSE (IF Head(ids) \in DOMAIN store THEN QuizChunks(store[Head(ids)]) ELSE <<>>)
       \o QuizContext(Tail(ids), store)

\* lines 260-300, for num_questions >= 0: the first num_questions parsed
\* questions, or the fallback question min(num_questions, 5) times
generate_quiz_with_llm(context_chunks, num_questions, gen) ==
  IF gen.ok
  THEN SubSeq(gen.questions, 1, Min(Len(gen.questions), num_questions))
  ELSE [i \in 1..Min(num_questions, 5) |-> FALLBACK_QUESTION]

\* a quiz that takes the documents it reads out of the store
generate_quiz_popping(doc_ids, num_questions, gen) ==
  /\ response = NoResponse
  /\ documents_store' = [k \in DOMAIN documents_store \ {doc_ids.ids[i] : i \in 1..Len(doc_ids.ids)}
                           |-> documents_store[k]]
  /\ response' = [op |-> "quiz", status |-> 200, questions |-> <<>>,
                  doc_ids |-> doc_ids, num_questions |-> num_questions]
  /\ UNCHANGED <<store_entries, uuid_issued, argsort_kind, st, taskState>>

\* POST /quiz (lines 607-629); doc_ids and num_questions in the response are
\* history, the request served
generate_quiz(doc_ids, num_questions, gen) ==
  /\ response = NoResponse
  /\ LET context_chunks == QuizContext(doc_ids.ids, documents_store)
     IN response' =
          IF context_chunks = <<>>
          THEN [op |-> "quiz", status |-> 400,
                detail |-> "No documents found. Please upload documents first.",
                doc_ids |-> doc_ids, num_questions |-> num_questions]
          ELSE [op |-> "quiz", status |-> 200,
                questions |-> generate_quiz_with_llm(context_chunks, num_questions, gen),
                doc_ids |-> doc_ids, num_questions |-> num_questions]
  /\ UNCHANGED <<documents_store, store_entries, uuid_issued, argsort_kind, st, taskState>>

\* ---- POST /plan.  A date is the ordinal of its day; strptime and strftime
\* map well-formed dates one to one.  now is what datetime.now() reads: the
\* day, and the seconds since its midnight.
MaxExamDay == 9      \* the latest exam_date of a request, in days from today

Clocks == {[date |-> 0, secs |-> 0], [date |-> 0, secs |-> 1]}
ExamDates == (0 - 1)..MaxExamDay
SubjectLists == {<<>>, <<"Math">>, <<"Math", "Physics">>}

\* the dicts of the list the provider's text parses to; has holds the keys
\* that are present
DayPlans ==
  {[has |-> {}, day |-> 0, subject |-> "", hours |-> 0],
   [has |-> {"day", "subject", "hours"}, day |-> 3, subject |-> "Art", hours |-> 1]}

\* ok is FALSE when the call raised or the text did not parse to a list of
\* dicts
PlanGenerations ==
  {[ok |-> FALSE, data |-> <<>>], [ok |-> TRUE, data |-> <<>>]}
  \cup {[ok |-> TRUE, data |-> <<a>>] : a \in DayPlans}
  \cup {[ok |-> TRUE, data |-> <<a, b>>] : a, b \in DayPlans}

\* (exam_datetime - today).days: timedelta.days rounds down
DaysUntil(exam_date, now) == exam_date - now.date - (IF now.secs > 0 THEN 1 ELSE 0)

PlanRaised(exc) == [raised |-> TRUE, exc |-> exc, plan |-> <<>>]
PlanReturned(plan) == [raised |-> FALSE, exc |-> "", plan |-> plan]

\* lines 342-361, the except branch; line 357 divides by len(subjects) on
\* every pass of the loop.  topics holds the number in the topic's name.
FallbackPlan(exam_date, hours_per_day, subjects, now) ==
  LET days == Max(7, DaysUntil(exam_date, now))
  IN IF subjects = <<>>
     THEN PlanRaised("ZeroDivisionError")
     ELSE PlanReturned(
            [d \in 1..days |->
               [day |-> d,
                date |-> now.date + (d - 1),
                subject |-> subjects[((d - 1) % Len(subjects)) + 1],
                hours |-> hours_per_day,
                topics |-> ((d - 1) \div Len(subjects)) + 1]])

\* lines 303-361.  The default of day_plan.get('subject', ...) is computed
\* on every pass of the loop at line 334, so an empty subjects list raises
\* there and the except branch runs.  topics and tips of the provider's plan
\* are left out.
generate_study_plan(exam_date, hours_per_day, subjects, now, gen) ==
  LET until == DaysUntil(exam_date, now)
      days_until_exam == IF until <= 0 THEN 7 ELSE until
      plan_data == SubSeq(gen.data, 1, Min(Len(gen.data), days_until_exam))
  IN IF ~gen.ok \/ (plan_data # <<>> /\ subjects = <<>>)
     THEN FallbackPlan(exam_date, hours_per_day, subjects, now)
     ELSE PlanReturned(
            [i \in 1..Len(plan_data) |->
               [day |-> IF "day" \in plan_data[i].has THEN plan_data[i].day ELSE i,
                date |-> now.date + (i - 1),
                subject |-> IF "subject" \in plan_data[i].has THEN plan_data[i].subject
                            ELSE subjects[((i - 1) % Len(subjects)) + 1],
                hours |-> IF "hours" \in plan_data[i].has THEN plan_data[i].hours
                          ELSE hours_per_day,
                topics |-> 0]])

\* sum(day['hours'] for day in plan)
RECURSIVE TotalHours(_)
TotalHours(plan) == IF plan = <<>> THEN 0 ELSE Head(plan).hours + TotalHours(Tail(plan))

\* POST /plan (lines 632-645); the request, now and gen in the response are
\* history
create_study_plan(exam_date, hours_per_day, subjects, now, gen) ==
  /\ response = NoResponse
  /\ LET r == generate_study_plan(exam_date, hours_per_day, subjects, now, gen)
         history == [exam_date |-> exam_date, hours_per_day |-> hours_per_day,
                     subjects |-> subjects, now |-> now, gen |-> gen]
     IN response' =
          IF r.raised
          THEN [op |-> "plan", status |-> 500,
                detail |-> "Plan generation failed: " \o r.exc] @@ history
          ELSE [op |-> "plan", status |-> 200, plan |-> r.plan,
                total_days |-> Len(r.plan), total_hours |-> TotalHours(r.plan)] @@ history
  /\ UNCHANGED <<documents_store, store_entries, uuid_issued, argsort_kind, st, taskState>>

\* GET /health (lines 676-685)
health_check ==
  /\ response = NoResponse
  /\ response' = [op |-> "health", status |-> 200,
                  documents_count |-> Cardinality(DOMAIN documents_store)]
  /\ UNCHANGED <<documents_store, store_entries, uuid_issued, argsort_kind, st, taskState>>

\* ---- the voice agent: POST /start-agent and /stop-agent, and the web
\* client's "Agora Agent Controls" (frontend/app.py lines 829-881)
AgentIds == {"agent-1", "agent-2", "agent-3"}

\* what the user can leave in the channel text input
Channels == {"", "preppl_channel", "physics", "maths"}

\* the server's environment: whether AGORA_APP_ID and AGORA_TEMP_AGENT_TOKEN
\* are set
Envs ==
  {[app_id |-> TRUE, agent_token |-> TRUE],
   [app_id |-> TRUE, agent_token |-> FALSE],
   [app_id |-> FALSE, agent_token |-> TRUE]}

\* what the POST to Agora's join endpoint does: a 200 with the agent, another
\* status, or an exception
JoinOutcomes ==
  {[kind |-> "ok", agent_id |-> a, status |-> s] : a \in AgentIds, s \in {"RUNNING", "STARTING"}}
  \cup {[kind |-> "refused", agent_id |-> None, status |-> None],
        [kind |-> "raised", agent_id |-> None, status |-> None]}

\* what the POST to Agora's leave endpoint does
LeaveOutcomes == {"ok", "refused", "raised"}

\* lines 497-520 with agora_join (419-472); the client sends agent_token None.
\* agent_id and status are what data.get() finds in the body, None for a key
\* that is not there.  A join Agora refuses is returned as a dict of the error
\* with status 200.
start_agent(channel, env, join) ==
  IF channel = "" \/ ~env.agent_token
  THEN [status_code |-> 400, agent_id |-> None, status |-> None]
  ELSE IF ~env.app_id \/ join.kind = "raised"
  THEN [status_code |-> 500, agent_id |-> None, status |-> None]
  ELSE [status_code |-> 200, agent_id |-> join.agent_id, status |-> join.status]

\* lines 523-539 with agora_leave (476-483), where raise_for_status turns a
\* refusal into an exception
stop_agent(agent_id, env, leave) ==
  IF agent_id = None \/ agent_id = "" THEN [status_code |-> 400]
  ELSE IF ~env.app_id \/ leave # "ok" THEN [status_code |-> 500]
  ELSE [status_code |-> 200]

\* frontend/app.py lines 313-314 and 829-830
NoAgent == [agent_id |-> None, status |-> None, channel |-> None]
NewSession ==
  [session_state |-> [voice_enabled |-> FALSE, agora_agent |-> NoAgent], shown |-> ""]

\* frontend/app.py lines 837-851: the Stop button, offered while voice_enabled
\* is set.  sent is FALSE when requests.post raises.
ClickStop(env, leave, sent) ==
  /\ st.session_state.voice_enabled
  /\ LET agent_id == st.session_state.agora_agent.agent_id
         resp == stop_agent(agent_id, env, leave)
     IN st' =
          IF agent_id = None \/ agent_id = "" THEN [st EXCEPT !.shown = "No agent running."]
          ELSE IF ~sent THEN [st EXCEPT !.shown = "Error stopping agent"]
          ELSE IF resp.status_code = 200
          THEN [st EXCEPT !.session_state.agora_agent = NoAgent,
                          !.shown = "Agora agent stopped."]
          ELSE [st EXCEPT !.shown = "Stop failed"]
  /\ UNCHANGED <<documents_store, store_entries, uuid_issued, argsort_kind, response, taskState>>

\* frontend/app.py lines 852-875: the Start button, offered while
\* voice_enabled is not set
ClickStart(channel_name, env, join, sent) ==
  /\ ~st.session_state.voice_enabled
  /\ LET resp == start_agent(channel_name, env, join)
     IN st' =
          IF ~sent THEN [st EXCEPT !.shown = "Error starting agent"]
          ELSE IF resp.status_code = 200
          THEN [session_state |->
                  [voice_enabled |-> TRUE,
                   agora_agent |-> [agent_id |-> resp.agent_id, status |-> resp.status,
                                    channel |-> channel_name]],
                shown |-> "Agent started"]
          ELSE [st EXCEPT !.shown = "Start failed"]
  /\ UNCHANGED <<documents_store, store_entries, uuid_issued, argsort_kind, response, taskState>>

\* a sort whose order of equal keys can change from one call to the next
ArgsortOutcomes_any == ArgsortKinds

\* the orders of equal keys np.argsort can give in one call: the sort is a
\* fixed algorithm without random choices, so the build's order every time
ArgsortOutcomes == {argsort_kind}

\* the caller repeats the retrieval just answered, with the same query
\* embedding, doc_ids and top_k, before anything else is served; again is the
\* second result
RetrieveAgain ==
  /\ response.op = "retrieve" /\ "again" \notin DOMAIN response
  /\ \E kind \in ArgsortOutcomes :
       response' =
         response @@ [again |-> retrieve_relevant_chunks(response.q, response.doc_ids,
                                                         response.top_k, documents_store,
                                                         store_entries, kind)]
  /\ UNCHANGED <<documents_store, store_entries, uuid_issued, argsort_kind, st, taskState>>

\* ----------------------------------------------------------- specifications
vars == <<documents_store, store_entries, uuid_issued, argsort_kind, st, response,
          upload_task, chat_task, list_task, delete_task>>

Init ==
  /\ documents_store = <<>>
  /\ store_entries = <<>>
  /\ uuid_issued = 0
  /\ argsort_kind \in ArgsortKinds
  /\ response = NoResponse
  /\ upload_task = IdleUpload
  /\ chat_task = IdleChat
  /\ list_task = IdleList
  /\ delete_task = [w \in DeleteWorkers |-> IdleDelete]
  /\ st = NewSession

\* requests served one after the other, each handler run to its end
Next ==
  \/ \E req \in UploadRequests :
       \E calls \in [1..Len(ChunkTable[req]) -> DocEmbedOutcomes] :
         \E rnd \in [1..Len(ChunkTable[req]) -> RandnRows] :
           upload_document(req, calls, rnd)
  \/ \E doc_id \in ScopeIds : delete_document(doc_id)
  \/ list_documents
  \/ \E q \in QueryEmbedOutcomes : \E doc_ids \in Scopes : \E top_k \in TopKs :
       Retrieve(q, doc_ids, top_k)
  \/ Deliver

Spec == Init /\ [][Next]_vars

\* requests served at the same time
NextConc ==
  \/ \E req \in ConcUploadRequests : UploadBegin(req)
  \/ UploadRead
  \/ \E outcome \in ConcDocOutcomes : UploadEmbedCall(outcome)
  \/ UploadPublish
  \/ UploadReturn
  \/ \E doc_ids \in ConcScopes : ChatBegin(doc_ids)
  \/ \E q \in ConcQueryOutcomes : ChatEmbedQuery(q)
  \/ \E gen \in GenerationOutcomes : ChatTargets(gen) \/ ChatCheck(gen) \/ ChatFetch(gen)
  \/ ChatReturn
  \/ ListBegin
  \/ ListNext
  \/ ListReturn
  \/ \E w \in DeleteWorkers :
       \/ \E doc_id \in ScopeIds : DeleteBegin(w, doc_id)
       \/ DeleteFetch(w)
       \/ DeleteDel(w)
       \/ DeleteReturn(w)

SpecConc == Init /\ [][NextConc]_vars

\* uploads, deletes and /chat requests served one after the other
NextChat ==
  \/ \E req \in UploadRequests :
       \E calls \in [1..Len(ChunkTable[req]) -> DocEmbedOutcomes] :
         \E rnd \in [1..Len(ChunkTable[req]) -> RandnRows] :
           upload_document(req, calls, rnd)
  \/ \E doc_id \in ScopeIds : delete_document(doc_id)
  \/ \E q \in QueryEmbedOutcomes : \E doc_ids \in Scopes : \E gen \in GenerationOutcomes :
       chat(q, doc_ids, gen)
  \/ Deliver

SpecChat == Init /\ [][NextChat]_vars

\* uploads, deletes and retrievals, each retrieval possibly made twice
NextRepeat ==
  \/ \E req \in UploadRequests :
       \E calls \in [1..Len(ChunkTable[req]) -> DocEmbedOutcomes] :
         \E rnd \in [1..Len(ChunkTable[req]) -> RandnRows] :
           upload_document(req, calls, rnd)
  \/ \E doc_id \in ScopeIds : delete_document(doc_id)
  \/ \E q \in QueryEmbedOutcomes : \E doc_ids \in Scopes : \E top_k \in TopKs :
       Retrieve(q, doc_ids, top_k)
  \/ RetrieveAgain
  \/ Deliver

SpecRepeat == Init /\ [][NextRepeat]_vars

\* every endpoint that reads or writes documents_store, and /plan, served one
\* request after the other; /plan and /quiz with the extreme requests only
\* (SpecPlan has every /plan request)
NextApi ==
  \/ \E req \in UploadRequests :
       \E calls \in [1..Len(ChunkTable[req]) -> DocEmbedOutcomes] :
         \E rnd \in [1..Len(ChunkTable[req]) -> RandnRows] :
           upload_document(req, calls, rnd)
  \/ \E doc_id \in ScopeIds : delete_document(doc_id)
  \/ list_documents
  \/ \E q \in QueryEmbedOutcomes : \E doc_ids \in Scopes : \E gen \in GenerationOutcomes :
       chat(q, doc_ids, gen)
  \/ \E doc_ids \in Scopes : \E num_questions \in {0, 1, MaxQuestions} :
       \E gen \in QuizGenerations : generate_quiz(doc_ids, num_questions, gen)
  \/ \E exam_date \in {0, MaxExamDay} : \E subjects \in SubjectLists : \E now \in Clocks :
       \E gen \in {g \in PlanGenerations : Len(g.data) <= 1} :
         create_study_plan(exam_date, 2, subjects, now, gen)
  \/ health_check
  \/ Deliver

SpecApi == Init /\ [][NextApi]_vars

\* calls of /plan alone, for every request, clock and provider outcome
NextPlan ==
  \/ \E exam_date \in ExamDates : \E subjects \in SubjectLists : \E now \in Clocks :
       \E gen \in PlanGenerations : create_study_plan(exam_date, 2, subjects, now, gen)
  \/ Deliver

SpecPlan == Init /\ [][NextPlan]_vars

\* one browser session: any sequence of clicks on the agent control offered
NextClient ==
  \/ \E channel_name \in Channels : \E env \in Envs : \E join \in JoinOutcomes :
       \E sent \in BOOLEAN : ClickStart(channel_name, env, join, sent)
  \/ \E env \in Envs : \E leave \in LeaveOutcomes : \E sent \in BOOLEAN :
       ClickStop(env, leave, sent)

SpecClient == Init /\ [][NextClient]_vars

\* one upload at a time, step by step, for every kind of request
NextUpload ==
  \/ \E req \in UploadRequests : UploadBegin(req)
  \/ UploadRead
  \/ \E outcome \in DocEmbedOutcomes : UploadEmbedCall(outcome)
  \/ UploadPublish
  \/ UploadReturn

SpecUpload == Init /\ [][NextUpload]_vars

\* ------------------------------------------- answer synthesis on its own
MaxContext == 2      \* longest context_chunks handed to generate_answer_with_llm

\* retrieval results as retrieve_relevant_chunks builds them
ResultSamples ==
  {[text |-> t, score |-> sc,
    source |-> [doc_id |-> id, filename |-> "notes.pdf", chunk_index |-> 0]] :
     t \in {"w", "w w"}, sc \in {0, 1}, id \in {1, 2}}

RECURSIVE ContextsUpTo(_)
ContextsUpTo(n) ==
  IF n = 0 THEN {<<>>}
  ELSE ContextsUpTo(n - 1)
       \cup {Append(c, r) : c \in {d \in ContextsUpTo(n - 1) : Len(d) = n - 1}, r \in ResultSamples}

Contexts == ContextsUpTo(MaxContext)

\* a call generate_answer_with_llm(query, context_chunks)
AnswerCall(context_chunks, gen) ==
  /\ response = NoResponse
  /\ response' =
       [op |-> "generate_answer", status |-> 200, context_chunks |-> context_chunks,
        gen |-> gen,
        answer |-> generate_answer_with_llm(context_chunks, gen).text,
        generate_content_calls |-> generate_answer_with_llm(context_chunks, gen).calls]
  /\ UNCHANGED <<documents_store, store_entries, uuid_issued, argsort_kind, st, taskState>>

NextAnswer ==
  \/ \E context_chunks \in Contexts : \E gen \in GenerationOutcomes :
       AnswerCall(context_chunks, gen)
  \/ Deliver

SpecAnswer == Init /\ [][NextAnswer]_vars

\* --------------------------------------------------- the chunker on its own
MaxTextLen == 4      \* longest text handed to chunk_text
MaxChunkSize == 3    \* largest chunk_size handed to chunk_text

TextChars == {"a", "b", " "}

RECURSIVE TextsUpTo(_)
TextsUpTo(n) ==
  IF n = 0 THEN {""}
  ELSE TextsUpTo(n - 1) \cup {t \o c : t \in TextsUpTo(n - 1), c \in TextChars}

Texts == TextsUpTo(MaxTextLen)
ChunkSizes == (0 - 1)..MaxChunkSize

\* a call chunk_text(text, chunk_size); range(0, len(words), 0) raises ValueError
ChunkCall(text, chunk_size) ==
  /\ response = NoResponse
  /\ response' =
       IF Split(text) # <<>> /\ chunk_size = 0
       THEN [op |-> "chunk_text", status |-> 500, text |-> text, chunk_size |-> chunk_size,
             detail |-> "ValueError"]
       ELSE [op |-> "chunk_text", status |-> 200, text |-> text, chunk_size |-> chunk_size,
             chunks |-> chunk_text(text, chunk_size)]
  /\ UNCHANGED <<documents_store, store_entries, uuid_issued, argsort_kind, st, taskState>>

NextChunker ==
  \/ \E text \in Texts : \E chunk_size \in ChunkSizes : ChunkCall(text, chunk_size)
  \/ Deliver

SpecChunker == Init /\ [][NextChunker]_vars

\* ------------------------------------------------------ claim vocabulary
IsUpload == response.op = "upload"
IsRetrieve == response.op = "retrieve"
UploadStored == IsUpload /\ response.status = 200 /\ response.doc_id \in DOMAIN documents_store
StoredDoc == documents_store[response.doc_id]

\* the ids a retrieval with this doc_ids argument looks up, in order
ScopeOf(doc_ids) ==
  IF doc_ids.given /\ doc_ids.ids # <<>> THEN doc_ids.ids
  ELSE Keys(documents_store, store_entries)

\* how many chunks those lookups find in the store
RECURSIVE CountChunks(_)
CountChunks(ids) ==
  IF ids = <<>> THEN 0
  ELSE (IF Head(ids) \in DOMAIN documents_store
        THEN documents_store[Head(ids)].num_chunks ELSE 0) + CountChunks(Tail(ids))

\* the chunks in scope, as (doc_id, chunk_index) pairs, and the score of one
ChunksInScope(doc_ids) ==
  LET ids == {ScopeOf(doc_ids)[k] : k \in 1..Len(ScopeOf(doc_ids))} \cap DOMAIN documents_store
  IN UNION {{<<id, i - 1>> : i \in 1..Len(documents_store[id].chunks)} : id \in ids}

UnitQuery(q) ==
  IF Norm(q.embedding.v) = 0 THEN <<NaN, NaN>>
  ELSE <<q.embedding.v[1] \div Norm(q.embedding.v), q.embedding.v[2] \div Norm(q.embedding.v)>>

ScoreOf(c, q) ==
  LET e == documents_store[c[1]].embeddings[c[2] + 1].v
      u == UnitQuery(q)
  IN IF IsNaN(u[1]) THEN NaN ELSE e[1] * u[1] + e[2] * u[2]

\* IEEE comparison: false when either side is nan
FGreater(a, b) == ~IsNaN(a) /\ ~IsNaN(b) /\ a > b

ResultChunk(r) == <<r.source.doc_id, r.source.chunk_index>>
ResultChunks == {ResultChunk(response.results[k]) : k \in 1..Len(response.results)}

\* C1: every stored document has as many embeddings as chunks, and its
\* num_chunks is the length of its chunk list, whatever the provider did
\* during the uploads and whatever was deleted.
C1_ParallelLists ==
  \A id \in DOMAIN documents_store :
    /\ Len(documents_store[id].chunks) = Len(documents_store[id].embeddings)
    /\ documents_store[id].num_chunks = Len(documents_store[id].chunks)

\* C1 witness: a two-chunk upload whose first provider call succeeded and whose
\* second failed has just been stored.
C1_Witness ==
  /\ UploadStored
  /\ Len(StoredDoc.chunks) = 2
  /\ Len(response.calls) = 2 /\ response.calls[1].ok /\ ~response.calls[2].ok

\* C2: a retrieval whose query embedding succeeded returns exactly
\* min(top_k, number of candidate chunks in scope) results, for every scope and
\* every top_k >= 0, top_k = 0 included.
C2_ResultLength ==
  (IsRetrieve /\ response.q.ok) =>
    Len(response.results) = Min(response.top_k, CountChunks(ScopeOf(response.doc_ids)))

\* C3: the results are in non-increasing score order, every result is a chunk in
\* scope with its own text and similarity, and no chunk in scope that was left
\* out scores strictly higher than a chunk that was returned.
C3_RankedTopK ==
  (IsRetrieve /\ response.q.ok) =>
    LET res == response.results IN
    /\ \A i, j \in 1..Len(res) : i < j => ~FGreater(res[j].score, res[i].score)
    /\ \A k \in 1..Len(res) :
         /\ ResultChunk(res[k]) \in ChunksInScope(response.doc_ids)
         /\ res[k].score = ScoreOf(ResultChunk(res[k]), response.q)
         /\ res[k].text = documents_store[res[k].source.doc_id].chunks[res[k].source.chunk_index + 1]
    /\ \A c \in ChunksInScope(response.doc_ids) \ ResultChunks :
         \A k \in 1..Len(res) : ~FGreater(ScoreOf(c, response.q), res[k].score)

\* C3 witness: three chunks in scope scoring 1, 0 and -1, top_k = 2, and the
\* result is the score-1 chunk followed by the score-0 chunk.
C3_Witness ==
  /\ IsRetrieve /\ response.q.ok /\ response.top_k = 2
  /\ Cardinality(ChunksInScope(response.doc_ids)) = 3
  /\ {ScoreOf(c, response.q) : c \in ChunksInScope(response.doc_ids)} = {1, 0, -1}
  /\ Len(response.results) = 2
  /\ response.results[1].score = 1 /\ response.results[2].score = 0

\* position of a chunk among the gathered candidates (first time it is gathered)
RECURSIVE ChunksBefore(_, _)
ChunksBefore(ids, k) ==
  IF k = 0 THEN 0
  ELSE ChunksBefore(ids, k - 1)
       + (IF ids[k] \in DOMAIN documents_store THEN documents_store[ids[k]].num_chunks ELSE 0)

GatherPos(c, doc_ids) ==
  LET ids == ScopeOf(doc_ids)
      first == SetMin({k \in 1..Len(ids) : ids[k] = c[1]})
  IN ChunksBefore(ids, first - 1) + c[2] + 1

ResultPos(c) == SetMin({k \in 1..Len(response.results) : ResultChunk(response.results[k]) = c})

\* C4: of two chunks in scope with equal score, the one gathered earlier is
\* ranked first, and if only one of them is returned it is the earlier one.
C4_TiesKeepGatherOrder ==
  (IsRetrieve /\ response.q.ok) =>
    \A a, b \in ChunksInScope(response.doc_ids) :
      ( /\ GatherPos(a, response.doc_ids) < GatherPos(b, response.doc_ids)
        /\ ~IsNaN(ScoreOf(a, response.q))
        /\ ScoreOf(a, response.q) = ScoreOf(b, response.q)
        /\ b \in ResultChunks )
      => (a \in ResultChunks /\ ResultPos(a) < ResultPos(b))

\* the upload was served from a readable PDF with text, and every provider
\* call it made failed
AllCallsFailed ==
  /\ IsUpload /\ UploadRejection(response.req) = ""
  /\ \A i \in 1..Len(response.calls) : ~response.calls[i].ok

\* C5: an upload of a PDF with extractable text whose provider calls all fail
\* is answered 200 and stores a document with one fallback vector per chunk,
\* each of width 768 and of unit norm.
C5_FallbackUpload ==
  AllCallsFailed =>
    /\ UploadStored
    /\ response.num_chunks = Len(StoredDoc.chunks)
    /\ Len(StoredDoc.embeddings) = Len(StoredDoc.chunks)
    /\ \A i \in 1..Len(StoredDoc.embeddings) :
         /\ StoredDoc.embeddings[i].dim = 768
         /\ Norm(StoredDoc.embeddings[i].v) = 1
         /\ \E row \in RandnRows :
              StoredDoc.embeddings[i].v = Scale(row, Norm(row))

\* C5 witness: a two-chunk upload whose first provider call failed was stored.
C5_Witness ==
  /\ AllCallsFailed /\ UploadStored
  /\ Len(StoredDoc.chunks) = 2 /\ Len(response.calls) = 1

\* C6: when a provider call fails for one chunk of an upload, the upload is
\* answered 200 and every chunk whose call succeeded keeps the normalised
\* vector the provider returned for it.
C6_PerCallFallback ==
  (IsUpload /\ \E i \in 1..Len(response.calls) : ~response.calls[i].ok) =>
    /\ UploadStored
    /\ \A i \in 1..Len(response.calls) :
         response.calls[i].ok =>
           StoredDoc.embeddings[i] = NormalizeDoc(response.calls[i].embedding)

\* C7: a retrieval whose query embedding call failed returns the empty sequence
\* and no error, whatever the store holds and whatever the scope is.
C7_QueryFailureEmpty ==
  (IsRetrieve /\ ~response.q.ok) =>
    (response.status = 200 /\ response.results = <<>>)

\* C7 witness: the query embedding failed while chunks were in scope.
C7_Witness ==
  /\ IsRetrieve /\ ~response.q.ok /\ response.top_k > 0
  /\ ChunksInScope(response.doc_ids) # {}

\* the ids of a store in the order they were inserted: ids are handed out in
\* increasing order and each is inserted before the next is handed out
SortedIds(store) ==
  [k \in 1..Cardinality(DOMAIN store) |->
     CHOOSE id \in DOMAIN store : Cardinality({j \in DOMAIN store : j <= id}) = k]

\* what /chat retrieves and what GET /documents lists when served, alone, on a
\* given store
ChatResultsOn(store, task) ==
  retrieve_relevant_chunks(task.q, task.doc_ids, DEFAULT_TOP_K, store, SortedIds(store),
                           argsort_kind)

ListingOn(store) ==
  [k \in 1..Cardinality(DOMAIN store) |-> Metadata(store[SortedIds(store)[k]])]

\* C8: a /chat retrieval or a listing that overlaps an upload or a delete ends
\* without an error, and when one mutation overlapped it, its result is the one
\* of the store before or of the store after that mutation.
C8_AtomicReads ==
  /\ chat_task.pc = "done" =>
       /\ chat_task.result.status = 200
       /\ chat_task.mutations <= 1 =>
            chat_task.result.results \in {ChatResultsOn(chat_task.seen, chat_task),
                                          ChatResultsOn(chat_task.after, chat_task)}
  /\ list_task.pc = "done" =>
       /\ list_task.result.status = 200
       /\ list_task.mutations <= 1 =>
            list_task.result.documents \in {ListingOn(list_task.seen),
                                            ListingOn(list_task.after)}

\* C9: the store never holds a document with chunks but without its
\* embeddings: a document under construction is not in the store before the
\* publishing step, and that step stores all its chunks with all its embeddings;
\* so every document a retrieval gathered or a listing read was complete.
C9_NoPartialDocument ==
  /\ \A id \in DOMAIN documents_store :
       /\ documents_store[id].chunks # <<>>
       /\ Len(documents_store[id].embeddings) = Len(documents_store[id].chunks)
  /\ upload_task.pc \in {"embed", "publish"} =>
       upload_task.doc_id \notin DOMAIN documents_store
  /\ (upload_task.pc = "done" /\ upload_task.result.status = 200
      /\ upload_task.doc_id \in DOMAIN documents_store) =>
       /\ documents_store[upload_task.doc_id].chunks = ChunkTable[upload_task.req]
       /\ documents_store[upload_task.doc_id].embeddings = upload_task.embeddings
       /\ Len(upload_task.embeddings) = Len(ChunkTable[upload_task.req])
  /\ \A k \in 1..Len(list_task.out) : list_task.out[k].num_chunks >= 1
  /\ \A k \in 1..Len(chat_task.candidates) :
       chat_task.candidates[k].embedding.dim = EMBED_DIM

\* C9 witness: a two-chunk document is embedded and about to be published
\* while a retrieval is in the middle of its loop over a non-empty store.
C9_Witness ==
  /\ upload_task.pc = "publish" /\ Len(upload_task.embeddings) = 2
  /\ chat_task.pc = "fetch"
  /\ DOMAIN documents_store # {}

\* C10: two overlapping deletes of the same id, present when the first of
\* them began, end one with 200 and the other with 404.
C10_OneDeletedOneNotFound ==
  \A w1, w2 \in DeleteWorkers :
    ( /\ w1 # w2
      /\ delete_task[w1].pc = "done" /\ delete_task[w2].pc = "done"
      /\ delete_task[w1].doc_id = delete_task[w2].doc_id
      /\ delete_task[w1].found )
    => \/ delete_task[w1].result.status = 200 /\ delete_task[w2].result.status = 404
       \/ delete_task[w1].result.status = 404 /\ delete_task[w2].result.status = 200

\* an id that an upload stored and a delete has removed since (requests served
\* one after the other: an id is stored in the step that issues it)
Deleted(id) == id \in 1..uuid_issued /\ id \notin DOMAIN documents_store

\* C11: a successful delete removes the document and only that document, and
\* from then on the id never comes back: it is not a key of the store, no
\* listing shows it and no retrieval result, scoped or not, has it as source.
C11_DeletedStaysGone ==
  [][ /\ (response = NoResponse /\ response'.op = "delete" /\ response'.status = 200) =>
           /\ response'.doc_id \in DOMAIN documents_store
           /\ response'.doc_id \notin DOMAIN documents_store'
           /\ \A k \in DOMAIN documents_store \ {response'.doc_id} :
                k \in DOMAIN documents_store' /\ documents_store'[k] = documents_store[k]
      /\ \A id \in KnownIds :
           Deleted(id) =>
             /\ id \notin DOMAIN documents_store'
             /\ response'.op = "list" =>
                  \A k \in 1..Len(response'.documents) : response'.documents[k].doc_id # id
             /\ response'.op = "retrieve" =>
                  \A k \in 1..Len(response'.results) : response'.results[k].source.doc_id # id
    ]_vars

\* C11 witness: document 1 was deleted, document 2 is stored, and a retrieval
\* scoped to both returned chunks.
C11_Witness ==
  /\ Deleted(1) /\ 2 \in DOMAIN documents_store
  /\ IsRetrieve /\ response.q.ok /\ response.doc_ids = DocIds(<<1, 2>>)
  /\ response.results # <<>>

\* C12: a delete of an id that is not a key of the store, never uploaded or
\* already deleted, is answered 404 "Document not found" and leaves the store
\* as it was.
C12_DeleteUnknownNotFound ==
  [][ ( /\ response = NoResponse /\ response'.op = "delete"
        /\ response'.doc_id \notin DOMAIN documents_store )
      => /\ response'.status = 404
         /\ response'.detail = "Document not found"
         /\ documents_store' = documents_store
         /\ store_entries' = store_entries
    ]_vars

\* C12 witness: a second delete of an id already deleted was answered 404
\* while another document was stored.
C12_Witness ==
  /\ response.op = "delete" /\ response.status = 404
  /\ Deleted(response.doc_id)
  /\ DOMAIN documents_store # {}

\* the candidates the retrieval of the response gathered
GatheredFor(doc_ids) ==
  Gather(TargetDocs(doc_ids, documents_store, store_entries), documents_store)

\* a doc_ids list without the ids that are not keys of the store
KnownOnly(doc_ids) ==
  LET known(id) == id \in DOMAIN documents_store
  IN DocIds(SelectSeq(doc_ids.ids, known))

\* C13: the candidates of a retrieval are exactly the chunks, each with its own
\* text and embedding, of the stored documents named in the scope, or of all
\* stored documents when the scope is absent or empty; ids that are not stored
\* are skipped without error, so that a scope with known and unknown ids gives
\* the result of the scope restricted to its known ids.
C13_CandidateSet ==
  (IsRetrieve /\ response.q.ok) =>
    LET cands == GatheredFor(response.doc_ids) IN
    /\ response.status = 200
    /\ {ResultChunk(cands[k]) : k \in 1..Len(cands)} = ChunksInScope(response.doc_ids)
    /\ \A k \in 1..Len(cands) :
         LET doc == documents_store[cands[k].source.doc_id]
             i == cands[k].source.chunk_index + 1
         IN cands[k].text = doc.chunks[i] /\ cands[k].embedding = doc.embeddings[i]
    /\ ResultChunks \subseteq ChunksInScope(response.doc_ids)
    /\ KnownOnly(response.doc_ids).ids # <<>> =>
         response.results =
           retrieve_relevant_chunks(response.q, KnownOnly(response.doc_ids), response.top_k,
                                    documents_store, store_entries, argsort_kind)

\* C13 witness: two documents are stored and a retrieval scoped to an unknown
\* id followed by document 1 returned chunks.
C13_Witness ==
  /\ IsRetrieve /\ response.q.ok
  /\ response.doc_ids = DocIds(<<UnknownId, 1>>)
  /\ {1, 2} \subseteq DOMAIN documents_store
  /\ response.results # <<>>

\* the result of the same retrieval had it been called with another doc_ids
ResultsFor(doc_ids) ==
  retrieve_relevant_chunks(response.q, doc_ids, response.top_k,
                           documents_store, store_entries, argsort_kind)

\* C14, as the specification states it: a retrieval scoped to the empty list of
\* ids returns what a retrieval scoped to a single id that is not stored
\* returns, the empty sequence.
C14_UnknownLikeEmptyScope ==
  (IsRetrieve /\ response.doc_ids = DocIds(<<>>)) =>
    /\ response.results = ResultsFor(DocIds(<<UnknownId>>))
    /\ response.results = <<>>

\* C14, as the code has it: a retrieval scoped to a single id that is not
\* stored returns the empty sequence and no error, whatever the store holds;
\* a retrieval scoped to the empty list is the unscoped retrieval over all
\* stored documents.
C14_UnknownScopeEmpty ==
  IsRetrieve =>
    /\ ( /\ response.doc_ids.given /\ Len(response.doc_ids.ids) = 1
         /\ response.doc_ids.ids[1] \notin DOMAIN documents_store )
       => (response.status = 200 /\ response.results = <<>>)
    /\ response.doc_ids = DocIds(<<>>) => response.results = ResultsFor(NoDocIds)

\* C14 witness: documents are stored, the query embedding succeeded, and the
\* retrieval was scoped to one id that was never issued.
C14_Witness ==
  /\ IsRetrieve /\ response.q.ok /\ response.top_k > 0
  /\ response.doc_ids = DocIds(<<UnknownId>>)
  /\ DOMAIN documents_store # {}

\* C15: while the store holds no document, at the start or after every
\* uploaded document was deleted, a retrieval returns the empty sequence and no
\* error, for every query outcome, scope and top_k.
C15_EmptyStoreEmptyResult ==
  (IsRetrieve /\ DOMAIN documents_store = {}) =>
    (response.status = 200 /\ response.results = <<>>)

\* C15 witness: every uploaded document was deleted, and a retrieval with a
\* good query embedding was scoped to one of the deleted ids.
C15_Witness ==
  /\ IsRetrieve /\ response.q.ok /\ response.top_k > 0
  /\ DOMAIN documents_store = {} /\ uuid_issued >= 1
  /\ response.doc_ids = DocIds(<<1>>)

\* chunk_text returned, for the call the response answers
IsChunked == response.op = "chunk_text" /\ response.status = 200

\* the number of whitespace-delimited words of a string
WordCount(s) ==
  Cardinality({i \in 1..Len(s) :
                 ~IsSpace(CharAt(s, i)) /\ (i = 1 \/ IsSpace(CharAt(s, i - 1)))})

\* a string with its leading and trailing whitespace dropped and every other
\* run of whitespace replaced by one blank
RECURSIVE NormalizedFrom(_, _)
NormalizedFrom(s, i) ==
  IF i > Len(s) THEN ""
  ELSE (IF ~IsSpace(CharAt(s, i)) THEN CharAt(s, i)
        ELSE IF /\ i > 1 /\ ~IsSpace(CharAt(s, i - 1))
                /\ \E j \in (i + 1)..Len(s) : ~IsSpace(CharAt(s, j))
        THEN " " ELSE "")
       \o NormalizedFrom(s, i + 1)

Normalized(s) == NormalizedFrom(s, 1)

CeilDiv(a, n) == (a + n - 1) \div n

\* C16: for a non-empty text, whitespace-only texts included, and a chunk size
\* n > 0, every segment has at most n words, the segments joined by single
\* blanks are the whitespace-normalised text, and there are
\* ceil(word_count / n) segments.
C16_ChunkPartition ==
  (IsChunked /\ response.text # "" /\ response.chunk_size > 0) =>
    /\ \A k \in 1..Len(response.chunks) : WordCount(response.chunks[k]) <= response.chunk_size
    /\ Join(response.chunks) = Normalized(response.text)
    /\ Len(response.chunks) = CeilDiv(WordCount(response.text), response.chunk_size)

\* C17: for the empty text and any chunk size, chunk_text returns exactly one
\* segment, the empty string.
C17_EmptyTextOneSegment ==
  (response.op = "chunk_text" /\ response.text = "") =>
    (response.status = 200 /\ response.chunks = <<"">>)

\* C17 witness: chunk_text was called with the empty text and chunk size 0.
C17_Witness ==
  /\ response.op = "chunk_text" /\ response.text = "" /\ response.chunk_size = 0

\* an upload the specification calls invalid: the name does not end in .pdf,
\* or no text comes out of the file
InvalidUpload(req) == ~EndsWith(req.filename, ".pdf") \/ TextTable[req] = ""

\* a stored document with all its parts
CompleteDocument(id) ==
  LET doc == documents_store[id] IN
  /\ doc.doc_id = id
  /\ doc.chunks # <<>> /\ \A i \in 1..Len(doc.chunks) : doc.chunks[i] # ""
  /\ doc.num_chunks = Len(doc.chunks)
  /\ Len(doc.embeddings) = Len(doc.chunks)
  /\ \A i \in 1..Len(doc.embeddings) : doc.embeddings[i].dim = EMBED_DIM

\* C18: an upload whose name does not end in .pdf or whose text is empty ends
\* with a 400 and a reason, never reaches uuid4(), chunk_text or
\* create_embeddings, and no step of it changes the store; and every document
\* in the store, in every state, is complete.
C18_InvalidUploadRejected ==
  /\ [](/\ \A id \in DOMAIN documents_store : CompleteDocument(id)
        /\ (upload_task.pc # "idle" /\ InvalidUpload(upload_task.req)) =>
             /\ upload_task.pc \in {"read", "done"}
             /\ upload_task.doc_id = 0
             /\ upload_task.calls = <<>> /\ upload_task.embeddings = <<>>
             /\ upload_task.pc = "done" =>
                  /\ upload_task.result.status = 400
                  /\ upload_task.result.detail # "")
  /\ [][(upload_task'.pc # "idle" /\ InvalidUpload(upload_task'.req)) =>
          UNCHANGED storeState]_vars

\* C18 witness: a PDF without text was rejected while a document was stored.
C18_Witness ==
  /\ upload_task.pc = "done" /\ upload_task.req.filename = "blank.pdf"
  /\ upload_task.result.status = 400
  /\ DOMAIN documents_store # {}

\* the ids under which uploads stored a document so far, deleted ones included
IdsAssigned == {store_entries[k] : k \in 1..Len(store_entries)}

\* C19: a successful upload gets an id that no earlier upload got, also when
\* the earlier document has been deleted since; it adds a document under that
\* id and leaves the others as they were, so that uploading a file again
\* makes a second document; and every key of the store is the doc_id of the
\* document under it.
C19_FreshIds ==
  /\ [](\A id \in DOMAIN documents_store : documents_store[id].doc_id = id)
  /\ [][(response = NoResponse /\ response'.op = "upload" /\ response'.status = 200) =>
          /\ response'.doc_id \notin IdsAssigned
          /\ response'.doc_id \notin DOMAIN documents_store
          /\ DOMAIN documents_store' = DOMAIN documents_store \cup {response'.doc_id}
          /\ \A k \in DOMAIN documents_store : documents_store'[k] = documents_store[k]
          /\ documents_store'[response'.doc_id].filename = response'.req.filename]_vars

\* C19 witness: the same file was uploaded twice; both documents are stored,
\* the second under a new id.
C19_Witness ==
  /\ UploadStored /\ response.doc_id = 2
  /\ 1 \in DOMAIN documents_store
  /\ documents_store[1].filename = documents_store[2].filename
  /\ documents_store[1].chunks = documents_store[2].chunks

\* C20: generate_answer_with_llm called with no retrieval results returns the
\* fixed no-materials message and does not call the generation model,
\* whatever that call would have done.
C20_NoMaterialsNoCall ==
  (response.op = "generate_answer" /\ response.context_chunks = <<>>) =>
    /\ response.answer =
         "I don't have any study materials to reference yet. Please upload some documents first!"
    /\ response.generate_content_calls = 0

\* C20 witness: the call had no context and the generation model was one that
\* raises when called.
C20_Witness ==
  /\ response.op = "generate_answer" /\ response.context_chunks = <<>>
  /\ response.gen = Fail

\* C21: a /chat request is answered 200 whatever the providers do: with the
\* no-materials answer and no sources when the query embedding call fails, and
\* with the fixed error text as answer when the generation call fails.
C21_ChatAbsorbsProviderFailures ==
  (response.op = "chat" /\ (~response.q.ok \/ response.gen = Fail)) =>
    /\ response.status = 200
    /\ ~response.q.ok =>
         /\ response.answer =
              "I don't have any study materials to reference yet. Please upload some documents first!"
         /\ response.sources = <<>>
    /\ (response.q.ok /\ response.results # <<>>) =>
         response.answer = "I encountered an error while generating the answer. Please try again."

\* C21 witness: chunks were retrieved and the generation call failed.
C21_Witness ==
  /\ response.op = "chat" /\ response.q.ok /\ response.gen = Fail
  /\ response.status = 200 /\ response.results # <<>>

\* C22: a listing has exactly one entry per stored document, and an entry
\* holds the document's doc_id, filename, subject, num_chunks and upload_date
\* and nothing else: no chunks and no embeddings.
C22_ListingIsMetadata ==
  response.op = "list" =>
    LET docs == response.documents IN
    /\ response.status = 200
    /\ Len(docs) = Cardinality(DOMAIN documents_store)
    /\ {docs[k].doc_id : k \in 1..Len(docs)} = DOMAIN documents_store
    /\ \A k \in 1..Len(docs) :
         /\ DOMAIN docs[k] = {"doc_id", "filename", "subject", "num_chunks", "upload_date"}
         /\ \A f \in DOMAIN docs[k] : docs[k][f] = documents_store[docs[k].doc_id][f]

\* C22 witness: a listing of a store that holds two documents.
C22_Witness ==
  /\ response.op = "list" /\ Len(response.documents) = 2
  /\ Cardinality(DOMAIN documents_store) = 2

CallerView(resp, doc) ==
  [status |-> resp.status, doc_id |-> resp.doc_id, filename |-> resp.filename,
   num_chunks |-> resp.num_chunks, subject |-> resp.subject, message |-> resp.message,
   listed |-> Metadata(doc)]

\* what the caller would have seen of the same upload had every provider call
\* succeeded, for each way the provider can succeed
ProviderViews(resp) ==
  LET chunks == ChunkTable[resp.req]
      rnd == [i \in 1..Len(chunks) |-> CHOOSE row \in RandnRows : TRUE]
  IN {CallerView(UploadOk(resp.doc_id, resp.req, chunks, calls),
                 NewDocument(resp.doc_id, resp.req, chunks,
                             create_embeddings(chunks, calls, rnd), resp.doc_id)) :
        calls \in [1..Len(chunks) -> {EmbedOk(v) : v \in DocVectors}]}

\* C24: a document stored with fallback vectors can be told, from the upload
\* response or from its listing entry, from the same upload served with
\* provider embeddings.
C24_FallbackFlagged ==
  (UploadStored /\ \E i \in 1..Len(response.calls) : ~response.calls[i].ok) =>
    CallerView(response, StoredDoc) \notin ProviderViews(response)

\* a vector as the specification wants it after normalisation: of unit length
\* when the provider's vector has a non-zero norm, the provider's vector itself
\* when its norm is zero
NormalisedAsSpecified(raw, v) ==
  IF Norm(raw) # 0
  THEN ~IsNaN(v[1]) /\ ~IsNaN(v[2]) /\ Norm(v) = 1
  ELSE v = raw

\* C25: every provider vector, of a chunk or of a query, is scaled to unit
\* length before it is stored or compared when its norm is not zero, and is
\* left as it is, without a division by zero, when its norm is zero.
C25_UnitVectors ==
  /\ \A raw \in DocVectors \cup {<<0, 0>>} :
       NormalisedAsSpecified(raw, NormalizeDoc([dim |-> EMBED_DIM, v |-> raw]).v)
  /\ (UploadStored /\ \A i \in 1..Len(response.calls) : response.calls[i].ok) =>
       \A i \in 1..Len(StoredDoc.embeddings) :
         NormalisedAsSpecified(response.calls[i].embedding.v, StoredDoc.embeddings[i].v)
  /\ (IsRetrieve /\ response.q.ok) =>
       NormalisedAsSpecified(response.q.embedding.v, NormalizeQuery(response.q.embedding).v)

\* C26: documents are never updated in place.  In every step a document that
\* is stored before and after is the same dict with the same chunks,
\* embeddings and metadata; an id joins the store only in the step of the
\* upload that answers 200 with that id and leaves it only in the step of the
\* delete that answers 200 for that id; chat, listing, quiz, plan and health
\* leave documents_store as it was.  Each chunk a retrieval returns is the
\* text stored at its (doc_id, chunk_index), so the reference designates that
\* text for as long as the document is stored.
C26_NoUpdateInPlace ==
  /\ [][/\ \A id \in DOMAIN documents_store \cap DOMAIN documents_store' :
             documents_store'[id] = documents_store[id]
        /\ \A id \in DOMAIN documents_store' \ DOMAIN documents_store :
             response'.op = "upload" /\ response'.status = 200 /\ response'.doc_id = id
        /\ \A id \in DOMAIN documents_store \ DOMAIN documents_store' :
             response'.op = "delete" /\ response'.status = 200 /\ response'.doc_id = id
        /\ response'.op \in {"chat", "list", "quiz", "plan", "health"}
             => documents_store' = documents_store]_vars
  /\ [](response.op = "chat" /\ response.status = 200
          => \A k \in 1..Len(response.results) :
               LET src == response.results[k].source
               IN /\ src.doc_id \in DOMAIN documents_store
                  /\ documents_store[src.doc_id].chunks[src.chunk_index + 1]
                       = response.results[k].text)

\* a chat returns chunk references while one of two uploaded documents has
\* been deleted
C26_Witness ==
  /\ response.op = "chat" /\ response.status = 200
  /\ response.results # <<>>
  /\ uuid_issued = 2
  /\ Cardinality(DOMAIN documents_store) = 1

\* C27: every document in documents_store has at least one chunk and no
\* chunk that is the empty string.  An upload whose text is empty after
\* stripping ends with a 400 before uuid4() and chunk_text run, so the
\* single empty segment chunk_text gives for such a text is never embedded
\* and never stored.
C27_NoEmptyChunkStored ==
  /\ \A id \in DOMAIN documents_store :
       /\ Len(documents_store[id].chunks) >= 1
       /\ \A k \in 1..Len(documents_store[id].chunks) : documents_store[id].chunks[k] # ""
  /\ upload_task.pc \in {"embed", "publish", "done"} /\ Strip(upload_task.req.pdf.pages) = ""
       => /\ upload_task.pc = "done"
          /\ upload_task.result.status \in {400, 500}
          /\ upload_task.doc_id = 0
          /\ upload_task.calls = <<>>
  /\ upload_task.pc \in {"embed", "publish"}
       => ChunkTable[upload_task.req] # <<"">>

\* a PDF of blank pages is rejected while a document is stored
C27_Witness ==
  /\ upload_task.pc = "done"
  /\ upload_task.req.filename = "blank.pdf"
  /\ upload_task.result.status = 400
  /\ documents_store # <<>>

\* C28: a retrieval result never holds the same chunk twice: no two of its
\* entries have the same (doc_id, chunk_index), whatever doc_ids list was
\* passed, a list naming one id twice included.
C28_NoChunkTwice ==
  response.op = "retrieve" =>
    \A i, j \in 1..Len(response.results) :
      i # j => <<response.results[i].source.doc_id, response.results[i].source.chunk_index>>
               # <<response.results[j].source.doc_id, response.results[j].source.chunk_index>>

\* C29: for every well-formed exam_date and every subjects list, the empty
\* list included, generate_study_plan returns a plan and /plan answers 200
\* with total_days equal to the number of entries; when the provider call or
\* the parsing of its output failed, the plan is the fallback plan: max(7, days
\* until the exam) entries numbered 1..N, dated today, tomorrow, ..., with the
\* subjects in rotation, or "General Study" when there is none.
C29_PlanNeverRaises ==
  response.op = "plan" =>
    /\ response.status = 200
    /\ response.total_days = Len(response.plan)
    /\ ~response.gen.ok =>
         LET n == Max(7, DaysUntil(response.exam_date, response.now)) IN
         /\ Len(response.plan) = n
         /\ \A d \in 1..n :
              /\ response.plan[d].day = d
              /\ response.plan[d].date = response.now.date + (d - 1)
              /\ response.plan[d].subject =
                   IF response.subjects = <<>> THEN "General Study"
                   ELSE response.subjects[((d - 1) % Len(response.subjects)) + 1]

\* C30: in the web client's session state, after any sequence of Start and
\* Stop clicks with any backend responses, voice_enabled is true exactly when
\* agora_agent.agent_id is set; and after a stop that succeeded the session
\* offers the Start control again.
C30_VoiceIffAgent ==
  /\ st.session_state.voice_enabled <=> st.session_state.agora_agent.agent_id # None
  /\ st.shown = "Agora agent stopped." => ~st.session_state.voice_enabled

====
